---- MODULE Spec2Model ----
\* A model of spotify_india_analysis.py: the artist -> top tracks -> audio
\* features -> table pipeline, its entry point, the playlist paginator and the
\* chunked() generator.  The remote API is the environment: every response is
\* chosen by the action that issues the request.
EXTENDS Integers, Sequences, FiniteSets, TLC

\* ---------------------------------------------------------------------------
\* Bounds and program constants
\* ---------------------------------------------------------------------------

\* The per-request ceiling in safe_audio_features: chunked(track_ids, 100).
BatchSize == 100

\* Long track lists have about k * BatchSize ids, for k up to MaxBatches.
MaxBatches == 2

\* Short track lists have up to MaxShort ids drawn from 1..MaxId (duplicates
\* allowed).
MaxShort == 3

MaxId == 2

\* chunked() is also driven directly with chunk sizes 1..MaxN.
MaxN == 3

\* A playlist has 1..MaxPages pages of 0..MaxItems items each.
MaxPages == 3

MaxItems == 1

\* ---------------------------------------------------------------------------
\* Values
\* ---------------------------------------------------------------------------

\* Python's None, a returned object, and a name not yet bound.
None == [kind |-> "none"]

Some(v) == [kind |-> "some", val |-> v]

Unset == [kind |-> "unset"]

\* The null (NaN) cell a left merge puts in the right-hand columns of a row
\* without a match.
Null == -1

Min(a, b) == IF a < b THEN a ELSE b

\* Python's lst[i:j] for 0 <= i <= j: indices are 0-based and j is clamped to
\* len(lst).
Slice(lst, i, j) == SubSeq(lst, i + 1, Min(j, Len(lst)))

\* The concatenation of ss[lo], ..., ss[hi], computed by halving the range.
RECURSIVE FlattenRange(_, _, _)
FlattenRange(ss, lo, hi) ==
    IF lo > hi THEN <<>>
    ELSE IF lo = hi THEN ss[lo]
    ELSE LET mid == (lo + hi) \div 2
         IN  FlattenRange(ss, lo, mid) \o FlattenRange(ss, mid + 1, hi)

\* The concatenation of a sequence of sequences.
Flatten(ss) == FlattenRange(ss, 1, Len(ss))

\* ---------------------------------------------------------------------------
\* The remote catalogue (the environment's data)
\* ---------------------------------------------------------------------------

ArtistNames == {"Arijit Singh", "Shreya Ghoshal"}

Markets == {"IN"}

\* search(..., limit=1) returns zero items or one artist object.
ArtistObj(name) == [id |-> "artist-id", name |-> name]

SearchResults(name) == {<<>>, <<ArtistObj(name)>>}

\* The track object the API returns for track id i.  Even ids are duets.
TrackObj(i) ==
    [id |-> i,
     name |-> <<"track", i>>,
     artists |-> IF i % 2 = 0
                 THEN <<[name |-> "Arijit Singh"], [name |-> "Shreya Ghoshal"]>>
                 ELSE <<[name |-> "Arijit Singh"]>>,
     album |-> [name |-> <<"album", i \div 2>>],
     popularity |-> (7 * i) % 101,
     duration_ms |-> 180000 + i]

\* The audio-features record of track id i.
FeatureObj(i) == [id |-> i, danceability |-> i % 10, tempo |-> 60 + i]

Ramp(len) == [i \in 1..len |-> i]

ShortIdLists == UNION {[1..k -> 1..MaxId] : k \in 0..MaxShort}

LongLens == {k * BatchSize + d : k \in 1..MaxBatches, d \in {-1, 0, 1}}

LongIdLists == {Ramp(len) : len \in LongLens}

TrackIdLists == ShortIdLists \cup LongIdLists

TopTrackLists == {[k \in 1..Len(ids) |-> TrackObj(ids[k])] : ids \in TrackIdLists}

\* What audio_features(batch) can return when it does not raise: one record
\* per requested id, in request order, except for the ids the service has no
\* features for.
MissingSets == SUBSET (1..MaxId)

FeatureResponse(batch, missing) ==
    LET have == SelectSeq(batch, LAMBDA i : i \notin missing)
    IN  [k \in 1..Len(have) |-> FeatureObj(have[k])]

FeatureResponses(batch) == {FeatureResponse(batch, m) : m \in MissingSets}

\* A playlist is its pages; a page is its item list.
PageItemLists == UNION {[1..k -> {"x", "y"}] : k \in 0..MaxItems}

Playlists == UNION {[1..p -> PageItemLists] : p \in 1..MaxPages}

\* The response for page k of a playlist: its items and the next-page cursor
\* (the number of the next page, None on the last page).
PageResponse(pl, k) ==
    [items |-> pl[k], next |-> IF k < Len(pl) THEN Some(k + 1) ELSE None]

\* ---------------------------------------------------------------------------
\* State
\* ---------------------------------------------------------------------------

VARIABLES
    entry,        \* the function the run starts in
    pc,           \* position in the code
    calls,        \* the requests issued and the sleeps taken, in order
    out,          \* what was printed or shown, in order
    exit,         \* how the process ended
    artist_name,  \* analyze_artist's argument
    items,        \* search_artist: the items of the search response
    artist,       \* analyze_artist: artist
    top_tracks,   \* analyze_artist: top_tracks
    df_meta,      \* analyze_artist: df_meta
    track_ids,    \* the list handed to chunked / safe_audio_features
    n,            \* chunked: n
    gi,           \* chunked: i, the position of the generator
    groups,       \* the chunks a direct consumer of chunked() has received
    all_feats,    \* safe_audio_features: all_feats
    feats,        \* the value safe_audio_features returned
    df,           \* the value analyze_artist returned
    playlist,     \* the remote playlist get_playlist_tracks reads
    results,      \* get_playlist_tracks: results
    tracks        \* get_playlist_tracks: tracks

vars == <<entry, pc, calls, out, exit, artist_name, items, artist, top_tracks,
          df_meta, track_ids, n, gi, groups, all_feats, feats, df, playlist,
          results, tracks>>

\* A log entry: the operation, its argument, whether it returned (or raised)
\* and what it returned.
Call(op, arg, ok, ret) == [op |-> op, arg |-> arg, ok |-> ok, ret |-> ret]

Entries == {"main", "analyze_artist", "safe_audio_features",
            "get_playlist_tracks", "chunked"}

Init ==
    /\ entry \in Entries
    /\ pc = entry
    /\ calls = <<>>
    /\ out = <<>>
    /\ exit = "running"
    /\ artist_name \in IF entry = "analyze_artist" THEN ArtistNames
                       ELSE {"Arijit Singh"}
    /\ items = <<>>
    /\ artist = Unset
    /\ top_tracks = <<>>
    /\ df_meta = Unset
    /\ track_ids \in IF entry = "safe_audio_features" THEN TrackIdLists
                     ELSE IF entry = "chunked" THEN ShortIdLists
                     ELSE {<<>>}
    /\ n \in IF entry = "chunked" THEN 1..MaxN ELSE {BatchSize}
    /\ gi = 0
    /\ groups = <<>>
    /\ all_feats = <<>>
    /\ feats = Unset
    /\ df = Unset
    /\ playlist \in IF entry = "get_playlist_tracks" THEN Playlists ELSE {<<>>}
    /\ results = Unset
    /\ tracks = <<>>

\* ---------------------------------------------------------------------------
\* Tables
\* ---------------------------------------------------------------------------

\* sep.join(strs); a string is modelled as the sequence of its pieces.
RECURSIVE Join(_, _)
Join(sep, strs) ==
    IF strs = <<>> THEN <<>>
    ELSE IF Len(strs) = 1 THEN <<strs[1]>>
    ELSE <<strs[1], sep>> \o Join(sep, Tail(strs))

MetaColumns == <<"track_name", "track_id", "artists", "album", "popularity",
                 "duration_ms">>

FeatColumns == <<"id", "danceability", "tempo">>

\* The dict appended to tracks_meta for track object t.
MetaRow(t) ==
    [track_name |-> t.name,
     track_id |-> t.id,
     artists |-> Join(", ", [k \in 1..Len(t.artists) |-> t.artists[k].name]),
     album |-> t.album.name,
     popularity |-> t.popularity,
     duration_ms |-> t.duration_ms]

\* pd.DataFrame(records): the columns are the records' keys; an empty list
\* gives a frame without columns.
DataFrame(records, cols) ==
    [columns |-> IF records = <<>> THEN <<>> ELSE cols, rows |-> records]

HasColumn(frame, c) == \E k \in 1..Len(frame.columns) : frame.columns[k] = c

NullFeat == [id |-> Null, danceability |-> Null, tempo |-> Null]

\* The rows a left merge produces for the left row m: one per right row with
\* id = m.track_id, in the right frame's order, or one null-filled row when
\* there is none.
MergeRow(m, right_rows) ==
    LET matches == SelectSeq(right_rows, LAMBDA f : f.id = m.track_id)
    IN  IF matches = <<>> THEN <<m @@ NullFeat>>
        ELSE [k \in 1..Len(matches) |-> m @@ matches[k]]

\* left.merge(right, left_on='track_id', right_on='id', how='left'), for a
\* right frame that has the id column.
Merge(left, right) ==
    [columns |-> left.columns \o right.columns,
     rows |-> Flatten([k \in 1..Len(left.rows) |-> MergeRow(left.rows[k], right.rows)])]

\* ---------------------------------------------------------------------------
\* analyze_artist
\* ---------------------------------------------------------------------------

\* Where analyze_artist returns to.
AfterAnalyze == IF entry = "main" THEN "main_check" ELSE "done"

\* Where safe_audio_features returns to.
AfterFeatures == IF entry = "safe_audio_features" THEN "done" ELSE "assemble"

\* The empty check on top_tracks left out.
NoTracks_Never(tt) == FALSE

\* not top_tracks, in analyze_artist.
NoTracks(tt) == tt = <<>>

\* The fallback returning nothing instead of df_meta.
Fallback_None(meta) == None

\* The table analyze_artist returns when feats is None.
Fallback(meta) == meta

\* search_artist without its empty check: some artist object comes back even
\* when the search has no hit.
SearchArtistReturn_NoCheck(its) ==
    Some(IF its = <<>> THEN ArtistObj("") ELSE its[1])

\* search_artist's return value for the items of the search response.
SearchArtistReturn(its) == IF its = <<>> THEN None ELSE Some(its[1])

\* __main__: df = analyze_artist("Arijit Singh", market="IN").
MainStart ==
    /\ pc = "main"
    /\ pc' = "analyze_artist"
    /\ UNCHANGED <<entry, calls, out, exit, artist_name, items, artist,
                   top_tracks, df_meta, track_ids, n, gi, groups, all_feats,
                   feats, df, playlist, results, tracks>>

\* analyze_artist up to its first return: the search and the not-found check.
SearchArtist ==
    /\ pc = "analyze_artist"
    /\ \E its \in SearchResults(artist_name) :
         LET a == SearchArtistReturn(its) IN
         /\ items' = its
         /\ artist' = a
         /\ calls' = Append(calls, Call("search", <<artist_name>>, TRUE, its))
         /\ IF a = None
            THEN /\ out' = Append(out, "Artist not found:")
                 /\ df' = None
                 /\ pc' = AfterAnalyze
            ELSE /\ out' = Append(out, "Found artist:")
                 /\ df' = df
                 /\ pc' = "top_tracks"
    /\ UNCHANGED <<entry, exit, artist_name, top_tracks, df_meta, track_ids,
                   n, gi, groups, all_feats, feats, playlist, results, tracks>>

\* artist_top_tracks_in_market and the empty check.
TopTracks ==
    /\ pc = "top_tracks"
    /\ \E tt \in TopTrackLists, market \in Markets :
         /\ top_tracks' = tt
         /\ calls' = Append(calls, Call("artist_top_tracks", <<artist.val.id, market>>, TRUE, tt))
         /\ IF NoTracks(tt)
            THEN /\ out' = Append(out, "No top tracks returned.")
                 /\ df' = None
                 /\ pc' = AfterAnalyze
            ELSE /\ out' = out
                 /\ df' = df
                 /\ pc' = "build_meta"
    /\ UNCHANGED <<entry, exit, artist_name, items, artist, df_meta, track_ids,
                   n, gi, groups, all_feats, feats, playlist, results, tracks>>

\* The loop over top_tracks that fills tracks_meta and track_ids, df_meta, and
\* the call of safe_audio_features.
BuildMeta ==
    /\ pc = "build_meta"
    /\ df_meta' = Some(DataFrame([k \in 1..Len(top_tracks) |-> MetaRow(top_tracks[k])],
                                 MetaColumns))
    /\ track_ids' = [k \in 1..Len(top_tracks) |-> top_tracks[k].id]
    /\ pc' = "safe_audio_features"
    /\ UNCHANGED <<entry, calls, out, exit, artist_name, items, artist,
                   top_tracks, n, gi, groups, all_feats, feats, df, playlist,
                   results, tracks>>

\* ---------------------------------------------------------------------------
\* chunked and safe_audio_features
\* ---------------------------------------------------------------------------

\* A range that stops before a last, shorter chunk.
HasNextChunk_FullOnly(lst, k, i) == i + k <= Len(lst)

\* range(0, len(lst), k) has the value i.
HasNextChunk(lst, k, i) == i < Len(lst)

\* The chunk yielded at position i: lst[i:i + k].
Chunk(lst, k, i) == Slice(lst, i, i + k)

\* The batch's records put in front of the collected ones.
Extend_Prepend(acc, more) == more \o acc

\* all_feats.extend(feats).
Extend(acc, more) == acc \o more

\* The except clause returning what was collected so far.
FailureReturn_Partial(acc) == Some(acc)

\* What safe_audio_features returns from its except clause, all_feats being
\* what the earlier batches collected.
FailureReturn(acc) == None

\* The except clause going on with the loop instead of returning.
AfterBatchFail_Continue == "loop"

\* Where control goes after the try block succeeded, and from the except
\* clause.
AfterBatchOk == "sleep"

AfterBatchFail == AfterFeatures

\* list(chunked(lst, n)) one step at a time: the generator yields a chunk.
ChunkedYield ==
    /\ pc = "chunked"
    /\ HasNextChunk(track_ids, n, gi)
    /\ groups' = Append(groups, Chunk(track_ids, n, gi))
    /\ gi' = gi + n
    /\ UNCHANGED <<entry, pc, calls, out, exit, artist_name, items, artist,
                   top_tracks, df_meta, track_ids, n, all_feats, feats, df,
                   playlist, results, tracks>>

\* The generator is exhausted.
ChunkedStop ==
    /\ pc = "chunked"
    /\ ~HasNextChunk(track_ids, n, gi)
    /\ pc' = "done"
    /\ UNCHANGED <<entry, calls, out, exit, artist_name, items, artist,
                   top_tracks, df_meta, track_ids, n, gi, groups, all_feats,
                   feats, df, playlist, results, tracks>>

\* safe_audio_features: all_feats = [] and the generator chunked(track_ids, 100).
EnterFeatures ==
    /\ pc = "safe_audio_features"
    /\ all_feats' = <<>>
    /\ n' = BatchSize
    /\ gi' = 0
    /\ pc' = "loop"
    /\ UNCHANGED <<entry, calls, out, exit, artist_name, items, artist,
                   top_tracks, df_meta, track_ids, groups, feats, df, playlist,
                   results, tracks>>

\* One iteration whose request succeeds: the try block.
BatchRequestOk ==
    /\ pc = "loop"
    /\ HasNextChunk(track_ids, n, gi)
    /\ LET batch == Chunk(track_ids, n, gi) IN
       \E resp \in FeatureResponses(batch) :
         /\ calls' = Append(calls, Call("audio_features", batch, TRUE, resp))
         /\ all_feats' = Extend(all_feats, resp)
    /\ gi' = gi + n
    /\ pc' = AfterBatchOk
    /\ UNCHANGED <<entry, out, exit, artist_name, items, artist, top_tracks,
                   df_meta, track_ids, n, groups, feats, df, playlist, results,
                   tracks>>

\* One iteration whose request raises SpotifyException: the except clause.
BatchRequestFail ==
    /\ pc = "loop"
    /\ HasNextChunk(track_ids, n, gi)
    /\ calls' = Append(calls, Call("audio_features", Chunk(track_ids, n, gi), FALSE, <<>>))
    /\ out' = out \o <<"audio_features() failed:", "This could be due to Spotify restricting the audio-features endpoint for new apps.">>
    /\ feats' = FailureReturn(all_feats)
    /\ gi' = gi + n
    /\ pc' = AfterBatchFail
    /\ UNCHANGED <<entry, exit, artist_name, items, artist, top_tracks, df_meta,
                   track_ids, n, groups, all_feats, df, playlist, results,
                   tracks>>

\* time.sleep(0.1) at the end of an iteration.
BatchSleep ==
    /\ pc = "sleep"
    /\ calls' = Append(calls, Call("sleep", <<>>, TRUE, <<>>))
    /\ pc' = "loop"
    /\ UNCHANGED <<entry, out, exit, artist_name, items, artist, top_tracks,
                   df_meta, track_ids, n, gi, groups, all_feats, feats, df,
                   playlist, results, tracks>>

\* The loop is over: return all_feats.
FeaturesReturn ==
    /\ pc = "loop"
    /\ ~HasNextChunk(track_ids, n, gi)
    /\ feats' = Some(all_feats)
    /\ pc' = AfterFeatures
    /\ UNCHANGED <<entry, calls, out, exit, artist_name, items, artist,
                   top_tracks, df_meta, track_ids, n, gi, groups, all_feats,
                   df, playlist, results, tracks>>

\* ---------------------------------------------------------------------------
\* analyze_artist after the feature fetch, and the entry point
\* ---------------------------------------------------------------------------

\* The plot drawn whatever the columns.
ShouldPlot_Always(frame) == TRUE

\* 'danceability' in df.columns.
ShouldPlot(frame) == HasColumn(frame, "danceability")

\* df is None, in __main__.
NoData(d) == d = None

\* The fallback, or df_feats and the merge.  merge raises KeyError when the
\* right frame has no id column, which is the case for an empty feats list;
\* nothing catches it.
Assemble ==
    /\ pc = "assemble"
    /\ IF feats = None
       THEN /\ out' = Append(out, "Audio features unavailable. Proceeding with metadata-only analysis.")
            /\ df' = Fallback(df_meta)
            /\ exit' = exit
            /\ pc' = AfterAnalyze
       ELSE LET df_feats == DataFrame(feats.val, FeatColumns) IN
            IF HasColumn(df_feats, "id")
            THEN /\ df' = Some(Merge(df_meta.val, df_feats))
                 /\ out' = out
                 /\ exit' = exit
                 /\ pc' = AfterAnalyze
            ELSE /\ df' = df
                 /\ out' = Append(out, "KeyError: 'id'")
                 /\ exit' = "exception"
                 /\ pc' = "done"
    /\ UNCHANGED <<entry, calls, artist_name, items, artist, top_tracks,
                   df_meta, track_ids, n, gi, groups, all_feats, feats,
                   playlist, results, tracks>>

\* __main__: the None check and print(df.head()).
MainCheck ==
    /\ pc = "main_check"
    /\ IF NoData(df)
       THEN /\ out' = Append(out, "No data returned.")
            /\ exit' = "SystemExit"
            /\ pc' = "done"
       ELSE /\ out' = Append(out, "df.head()")
            /\ exit' = exit
            /\ pc' = "plot"
    /\ UNCHANGED <<entry, calls, artist_name, items, artist, top_tracks,
                   df_meta, track_ids, n, gi, groups, all_feats, feats, df,
                   playlist, results, tracks>>

\* __main__: the scatter plot, or the message printed in its place.
MainPlot ==
    /\ pc = "plot"
    /\ out' = Append(out, IF ShouldPlot(df.val) THEN "fig.show()"
                          ELSE "No audio features available;")
    /\ exit' = "ok"
    /\ pc' = "done"
    /\ UNCHANGED <<entry, calls, artist_name, items, artist, top_tracks,
                   df_meta, track_ids, n, gi, groups, all_feats, feats, df,
                   playlist, results, tracks>>

\* ---------------------------------------------------------------------------
\* get_playlist_tracks
\* ---------------------------------------------------------------------------

\* A loop that also stops at a page without items.
HasNext_StopOnEmptyPage(res) == res.next # None /\ res.items # <<>>

\* results.get('next') is truthy.
HasNext(res) == res.next # None

\* playlist_items(...) and tracks = results['items'].
PlaylistFirst ==
    /\ pc = "get_playlist_tracks"
    /\ LET res == PageResponse(playlist, 1) IN
       /\ results' = Some(res)
       /\ tracks' = res.items
       /\ calls' = Append(calls, Call("playlist_items", <<1>>, TRUE, res.items))
    /\ pc' = "pages"
    /\ UNCHANGED <<entry, out, exit, artist_name, items, artist, top_tracks,
                   df_meta, track_ids, n, gi, groups, all_feats, feats, df,
                   playlist>>

\* One iteration of the while loop: sp.next(results) and tracks.extend.
PlaylistNext ==
    /\ pc = "pages"
    /\ HasNext(results.val)
    /\ LET page == results.val.next.val
           res == PageResponse(playlist, page)
       IN  /\ results' = Some(res)
           /\ tracks' = Extend(tracks, res.items)
           /\ calls' = Append(calls, Call("next", <<page>>, TRUE, res.items))
    /\ UNCHANGED <<entry, pc, out, exit, artist_name, items, artist,
                   top_tracks, df_meta, track_ids, n, gi, groups, all_feats,
                   feats, df, playlist>>

\* No cursor is left: return tracks.
PlaylistReturn ==
    /\ pc = "pages"
    /\ ~HasNext(results.val)
    /\ pc' = "done"
    /\ UNCHANGED <<entry, calls, out, exit, artist_name, items, artist,
                   top_tracks, df_meta, track_ids, n, gi, groups, all_feats,
                   feats, df, playlist, results, tracks>>

\* ---------------------------------------------------------------------------
\* Specification
\* ---------------------------------------------------------------------------

Next ==
    \/ MainStart
    \/ SearchArtist
    \/ TopTracks
    \/ BuildMeta
    \/ EnterFeatures
    \/ BatchRequestOk
    \/ BatchRequestFail
    \/ BatchSleep
    \/ FeaturesReturn
    \/ Assemble
    \/ MainCheck
    \/ MainPlot
    \/ PlaylistFirst
    \/ PlaylistNext
    \/ PlaylistReturn
    \/ ChunkedYield
    \/ ChunkedStop

Spec == Init /\ [][Next]_vars

\* get_playlist_tracks is sequential and each of its requests returns: a step
\* of it that can be taken is taken.
PlaylistStep == PlaylistFirst \/ PlaylistNext \/ PlaylistReturn

FairSpec == Spec /\ WF_vars(PlaylistStep)

\* ---------------------------------------------------------------------------
\* Properties
\* ---------------------------------------------------------------------------

\* The audio-features requests issued so far, in order.
Requests == SelectSeq(calls, LAMBDA c : c.op = "audio_features")

SomeRequestFailed == \E k \in 1..Len(Requests) : ~Requests[k].ok

CeilDiv(a, b) == (a + b - 1) \div b

InAnalyze == entry \in {"main", "analyze_artist"}

\* analyze_artist has returned or raised.
AnalyzeOver == InAnalyze /\ pc \in {"main_check", "plot", "done"}

\* safe_audio_features has returned.
FeaturesOver == feats # Unset

Printed(msg) == \E k \in 1..Len(out) : out[k] = msg

\* C1: when the search returns zero items, search_artist returns None,
\* analyze_artist returns None, and the search is the only request of the run:
\* no top-tracks and no audio-features request follows it.
C1_NotFoundNoFurtherCalls ==
    (InAnalyze /\ Len(calls) >= 1 /\ items = <<>>) =>
        /\ artist = None
        /\ df = None
        /\ Len(calls) = 1
        /\ calls[1].op = "search"
        /\ pc \in {"main_check", "done"}

C1_Witness ==
    /\ entry = "main"
    /\ pc = "done"
    /\ items = <<>>
    /\ calls # <<>>
    /\ df = None

\* Every request so far succeeded with one record per requested id.
AllRequestsFull ==
    \A k \in 1..Len(Requests) :
        Requests[k].ok /\ Len(Requests[k].ret) = Len(Requests[k].arg)

\* The value returned is the records of track_ids, in that order.
ResultMirrorsTrackIds ==
    /\ feats.kind = "some"
    /\ Len(feats.val) = Len(track_ids)
    /\ \A k \in 1..Len(track_ids) : feats.val[k] = FeatureObj(track_ids[k])

\* C2 as stated: once safe_audio_features has returned it has issued exactly
\* ceil(L / 100) requests, and if all of them succeeded with one record per
\* requested id the result is the records of track_ids, in that order.
C2_Original ==
    FeaturesOver =>
        /\ Len(Requests) = CeilDiv(Len(track_ids), BatchSize)
        /\ AllRequestsFull => ResultMirrorsTrackIds

\* C2, amended: safe_audio_features never issues more than ceil(L / 100)
\* requests and issues exactly that many when no request fails; if all of them
\* succeeded with one record per requested id the result is the records of
\* track_ids, in that order.
C2_RequestCountAndOrder ==
    /\ Len(Requests) <= CeilDiv(Len(track_ids), BatchSize)
    /\ FeaturesOver =>
        /\ ~SomeRequestFailed => Len(Requests) = CeilDiv(Len(track_ids), BatchSize)
        /\ AllRequestsFull => ResultMirrorsTrackIds

C2_Witness ==
    /\ FeaturesOver
    /\ Len(track_ids) = 2 * BatchSize + 1
    /\ Len(Requests) = 3
    /\ AllRequestsFull
    /\ Len(feats.val) = Len(track_ids)

\* C3: once a request has failed, the value of safe_audio_features is None,
\* which is not the empty list a successful fetch returns and not the records
\* of the batches that succeeded before.
C3_FailureIsNoneNotPartial ==
    SomeRequestFailed =>
        /\ feats = None
        /\ feats # Some(<<>>)
        /\ feats # Some(all_feats)

C3_Witness ==
    /\ SomeRequestFailed
    /\ Len(Requests) >= 2
    /\ all_feats # <<>>
    /\ feats = None

\* The frame has every column of the feature records.
HasFeatureColumns(frame) ==
    \A k \in 1..Len(FeatColumns) : HasColumn(frame, FeatColumns[k])

\* C4: when the feature fetch succeeds, the table analyze_artist returns has
\* exactly one row per top track, also when a track id occurs twice; a row
\* without a feature record has null feature fields and a row with one has
\* that record's fields.
C4_OneRowPerTrack ==
    (AnalyzeOver /\ feats.kind = "some" /\ df.kind = "some") =>
        /\ Len(df.val.rows) = Len(top_tracks)
        /\ \A k \in 1..Len(top_tracks) :
             LET row == df.val.rows[k]
                 id == top_tracks[k].id
             IN  /\ row.track_id = id
                 /\ IF \E j \in 1..Len(feats.val) : feats.val[j].id = id
                    THEN /\ row.id = id
                         /\ row.tempo = FeatureObj(id).tempo
                         /\ row.danceability = FeatureObj(id).danceability
                    ELSE /\ row.id = Null
                         /\ row.tempo = Null
                         /\ row.danceability = Null

\* C5: when the feature fetch fails, analyze_artist returns df_meta as built:
\* the top tracks' rows in order under exactly the six metadata columns, with
\* no feature column.
C5_FallbackIsMetadata ==
    (AnalyzeOver /\ SomeRequestFailed) =>
        /\ df = df_meta
        /\ df.kind = "some"
        /\ df.val.columns = <<"track_name", "track_id", "artists", "album",
                              "popularity", "duration_ms">>
        /\ ~HasColumn(df.val, "danceability")
        /\ ~HasColumn(df.val, "tempo")
        /\ Len(df.val.rows) = Len(top_tracks)
        /\ \A k \in 1..Len(top_tracks) :
             LET row == df.val.rows[k]
                 t == top_tracks[k]
             IN  /\ DOMAIN row = {"track_name", "track_id", "artists", "album",
                                  "popularity", "duration_ms"}
                 /\ row.track_id = t.id
                 /\ row.track_name = t.name
                 /\ row.album = t.album.name
                 /\ row.popularity = t.popularity
                 /\ row.duration_ms = t.duration_ms

C5_Witness ==
    /\ entry = "main"
    /\ pc = "done"
    /\ SomeRequestFailed
    /\ all_feats # <<>>
    /\ df = df_meta

\* The search had no hit, or the top-tracks response was empty.
NothingFound ==
    \/ artist = None
    \/ \E k \in 1..Len(calls) :
         calls[k].op = "artist_top_tracks" /\ calls[k].ret = <<>>

\* C6: when the artist is not found or the top-tracks list is empty,
\* analyze_artist returns None with no table built, the preview and the plot
\* are never produced, and the entry point ends with SystemExit and its
\* message.
C6_NoDataHalts ==
    (InAnalyze /\ NothingFound) =>
        /\ df = None
        /\ df_meta = Unset
        /\ pc \in {"main_check", "done"}
        /\ ~Printed("df.head()")
        /\ ~Printed("fig.show()")
        /\ (entry = "main" /\ pc = "done") =>
             /\ exit = "SystemExit"
             /\ out[Len(out)] = "No data returned."

C6_Witness ==
    /\ entry = "main"
    /\ pc = "done"
    /\ artist # None
    /\ NothingFound
    /\ exit = "SystemExit"

\* The requests so far are those for pages 1, 2, ... in turn.
PlaylistRequestsInOrder ==
    /\ Len(calls) <= Len(playlist)
    /\ \A k \in 1..Len(calls) :
         /\ calls[k].op = IF k = 1 THEN "playlist_items" ELSE "next"
         /\ calls[k].arg = <<k>>

\* On return every page has been requested once and tracks holds them all.
PlaylistDone ==
    pc = "done" =>
        /\ Len(calls) = Len(playlist)
        /\ tracks = Flatten(playlist)

\* C7: get_playlist_tracks issues one request per page, the first page and
\* then each next cursor in turn, never more than the playlist has pages; it
\* terminates, and then it has issued exactly P requests and tracks is the
\* concatenation of the P pages' items in page order.
C7_PaginationTerminates ==
    /\ [](entry = "get_playlist_tracks" => PlaylistRequestsInOrder /\ PlaylistDone)
    /\ (entry = "get_playlist_tracks") ~> (pc = "done")

C7_Witness ==
    /\ entry = "get_playlist_tracks"
    /\ pc = "done"
    /\ Len(playlist) = 3
    /\ playlist[2] = <<>>
    /\ playlist[3] # <<>>
    /\ Len(calls) = 3

\* C8: a failed feature batch does not end the run: the preview is printed
\* and the process ends normally; and the plot is shown only for a table with
\* the feature columns, the console message being printed for a table without
\* them.
C8_EnrichmentFailureDegrades ==
    entry = "main" =>
        /\ (SomeRequestFailed /\ pc = "done") =>
             /\ Printed("df.head()")
             /\ exit = "ok"
        /\ Printed("fig.show()") =>
             /\ df.kind = "some"
             /\ HasFeatureColumns(df.val)
        /\ (pc = "done" /\ df.kind = "some" /\ ~HasFeatureColumns(df.val)) =>
             /\ Printed("No audio features available;")
             /\ ~Printed("fig.show()")
        /\ exit = "SystemExit" => ~SomeRequestFailed

C8_Witness ==
    /\ entry = "main"
    /\ pc = "done"
    /\ SomeRequestFailed
    /\ all_feats # <<>>
    /\ Printed("df.head()")
    /\ Printed("No audio features available;")
    /\ exit = "ok"

\* C9: the groups chunked(lst, n) yields, n >= 1, are contiguous and their
\* concatenation is lst; each is non-empty with at most n elements and all
\* but the last have exactly n; an empty list yields none, and
\* safe_audio_features on an empty list issues no request and returns [].
C9_ChunksPartitionList ==
    /\ entry = "chunked" =>
        /\ Flatten(groups) = SubSeq(track_ids, 1, Min(gi, Len(track_ids)))
        /\ \A k \in 1..Len(groups) :
             /\ groups[k] # <<>>
             /\ Len(groups[k]) <= n
             /\ k < Len(groups) => Len(groups[k]) = n
        /\ pc = "done" =>
             /\ Flatten(groups) = track_ids
             /\ track_ids = <<>> => groups = <<>>
    /\ (entry = "safe_audio_features" /\ track_ids = <<>> /\ pc = "done") =>
        /\ calls = <<>>
        /\ feats = Some(<<>>)
        /\ feats # None

C9_Witness ==
    /\ entry = "chunked"
    /\ pc = "done"
    /\ n = 2
    /\ Len(track_ids) = 3
    /\ Len(groups) = 2
    /\ Len(groups[2]) = 1

\* The positions of the audio-features requests in the log.
RequestPositions == {p \in 1..Len(calls) : calls[p].op = "audio_features"}

\* C10: the k-th audio-features request is for the k-th batch of track_ids
\* (so the batches go out in order, each at most once); no request follows a
\* failed one; and a request other than the first comes right after the sleep
\* that followed the previous, successful, request.
C10_OrderedNoRetryPaused ==
    \A p \in RequestPositions :
        LET k == Cardinality({q \in RequestPositions : q <= p})
        IN  /\ calls[p].arg = Slice(track_ids, (k - 1) * BatchSize, k * BatchSize)
            /\ calls[p].arg # <<>>
            /\ ~calls[p].ok => \A q \in RequestPositions : q <= p
            /\ k > 1 =>
                 /\ calls[p - 1].op = "sleep"
                 /\ calls[p - 2].op = "audio_features"
                 /\ calls[p - 2].ok
            /\ (calls[p].ok /\ p < Len(calls)) => calls[p + 1].op = "sleep"

C10_Witness ==
    /\ Len(Requests) = 3
    /\ Requests[1].ok
    /\ Requests[2].ok
    /\ ~Requests[3].ok
    /\ pc = "done"

====
